---- MODULE Spec2Model ----
(***************************************************************************)
(* A model of conky's colour engine (colours.cc) and of its Wayland        *)
(* display output (display-wayland.cc), both in src/src/colours.cc.        *)
(*                                                                         *)
(* Six specifications share the module:                                    *)
(*   Spec        the display backend: initialize, main_loop_wait, cleanup  *)
(*   SpecPool    the shared-memory bump allocator taken on its own         *)
(*   SpecColour  set_up_gradient, adjust_colours and do_gradient           *)
(*   SpecDraw    adjust_coords and the drawing primitives                  *)
(*   SpecFont    the font table: load, free and the metric queries         *)
(*   SpecParse   the colour parser get_x11_color                           *)
(*                                                                         *)
(* size_t values are written as their two's-complement representative: a   *)
(* value v < 0 of the model stands for 2^64 + v.  Addition modulo 2^64 is  *)
(* then ordinary addition (all magnitudes stay far below 2^31) and the     *)
(* unsigned order is UGt below.  An int converted to size_t and back keeps *)
(* its representative.                                                     *)
(***************************************************************************)
EXTENDS Integers, Sequences, FiniteSets, TLC

VARIABLES
  status,          \* "uninit", "running", "failed", "crashed", "terminated"
  global_display,  \* NULL or DPY
  global_window,   \* NULL or WIN
  window,          \* struct window (meaningful when global_window = WIN)
  heap,            \* one object per pool shm_pool_create returned
  text_width, text_height, need_to_update,
  added,           \* the epoll registration flag
  pango_fonts,     \* the font table
  font_descs,      \* per font description ever created: times freed
  alloc_ok,        \* whether the last window_allocate_buffer succeeded
  log,             \* the calls made by the last operation, in order
  ret,             \* what the last operation returned (bool, int or long)
  iter,            \* main_loop_wait calls so far
  cleanups,        \* cleanup calls so far
  pool,            \* SpecPool: the pool under test
  pool_prev,       \* SpecPool: the pool before the last request
  pool_req,        \* SpecPool: the last request size
  pool_ret,        \* SpecPool: what the last request returned
  colour_depth, redmask, greenmask, bluemask,
  depth_on_entry,  \* SpecColour: colour_depth when the last call was entered
  grad_in,         \* SpecColour: <<width, first_colour, last_colour>>
  grad_out,        \* SpecColour: the sequence do_gradient returned
  adj_in, adj_out  \* SpecColour: adjust_colours' argument and result

backend_vars == <<status, global_display, global_window, window, heap,
                  text_width, text_height, need_to_update, added,
                  pango_fonts, font_descs, alloc_ok, log, ret, iter, cleanups>>
pool_vars == <<pool, pool_prev, pool_req, pool_ret>>
colour_vars == <<colour_depth, redmask, greenmask, bluemask, depth_on_entry,
                 grad_in, grad_out, adj_in, adj_out>>
vars == <<backend_vars, pool_vars, colour_vars>>

---------------------------------------------------------------------------
(* Bounds of the model.                                                    *)
MaxIter == 3        \* main_loop_wait calls explored
MaxCleanups == 2    \* cleanup calls explored
MaxPoolSize == 4    \* SpecPool: pool sizes 0..MaxPoolSize
MaxWidth == 3       \* SpecColour: gradient widths up to MaxWidth

(* Pointer values: a null pointer, an indeterminate non-null pointer, and  *)
(* the single display / window / shm object.  Any other pointer is the     *)
(* index (>= 1) of an object in heap.                                      *)
NULL == 0
GARBAGE == -1
DPY == 1
WIN == 1
SHM == 1

Ev(op, args) == [op |-> op, args |-> args]
HasOp(l, op) == \E i \in 1..Len(l) : l[i].op = op
CountOp(l, op) == Cardinality({i \in 1..Len(l) : l[i].op = op})
Valid(p) == p >= 1

(* get_border_total() and the sizes update_text_area() computes live in    *)
(* conky.cc; the configure sizes are the compositor's.                     *)
Border == 1
TextDims == {<<1, 1>>, <<2, 1>>}
ConfigDims == {<<0, 0>>, <<4, 3>>}
FontMetrics == {<<1, 1>>, <<3, 1>>}
NumFonts == 2

---------------------------------------------------------------------------
(* The machine state the helpers below transform: the globals a handler    *)
(* touches, the call log and whether the process has died.                 *)
Log(m, op, args) ==
  IF m.crashed THEN m ELSE [m EXCEPT !.log = Append(@, Ev(op, args))]

(* Undefined behaviour (a null or indeterminate pointer handed to a        *)
(* library, a failed assertion compiled out): the process dies, or the     *)
(* call happens to do nothing.                                             *)
UB(m, ub) == IF m.crashed THEN m
             ELSE IF ub = "crash" THEN [m EXCEPT !.crashed = TRUE] ELSE m

UGt(a, b) == IF (a < 0) = (b < 0) THEN a > b ELSE a < 0

---------------------------------------------------------------------------
(* The shared-memory pool (struct shm_pool: size, used, data).             *)

make_shm_pool(size, envOk) ==
  \* os_create_anonymous_file: the environment may refuse (no runtime
  \* directory, no space), and posix_fallocate rejects a length <= 0.
  envOk /\ size > 0

shm_pool_create(size) == [size |-> size, used |-> 0, data |-> 1]

shm_pool_allocate(p, size) ==
  IF UGt(p.used + size, p.size)
  THEN [ok |-> FALSE, offset |-> 0, pool |-> p]
  ELSE [ok |-> TRUE, offset |-> p.used,
        pool |-> [p EXCEPT !.used = p.used + size]]

(* cairo_format_stride_for_width(CAIRO_FORMAT_ARGB32, width): four bytes   *)
(* a pixel, -1 for a width it cannot represent.                            *)
Stride(width) == IF width < 0 THEN -1 ELSE 4 * width

(* Mutant: the pool is sized one pixel larger than the surface.            *)
data_length_for_shm_surface_Padded(rect) ==
  Stride(rect.width) * rect.height + 4

data_length_for_shm_surface(rect) == Stride(rect.width) * rect.height

---------------------------------------------------------------------------
(* Heap objects: a pool together with the image surface, the compositor    *)
(* buffer, the drawing context and the pango objects created over it.      *)

NewObj(p) ==
  [pool |-> p, pool_live |-> TRUE, pool_destroys |-> 0,
   surf_refs |-> 0, buf |-> "none", buf_destroys |-> 0, data_pool |-> FALSE,
   cr_live |-> FALSE, layout_live |-> FALSE, ctx_live |-> FALSE,
   order_ok |-> TRUE, width |-> 0, height |-> 0, offset |-> -1]

shm_pool_destroy(m, i) ==
  [m EXCEPT !.heap[i].pool_live = FALSE,
            !.heap[i].pool_destroys = @ + 1,
            !.heap[i].order_ok = @ /\ (m.heap[i].buf # "live")]

(* Mutant: the destructor forgets the pool.                                 *)
shm_surface_data_destroy_KeepPool(m, i) ==
  [m EXCEPT !.heap[i].buf = "destroyed", !.heap[i].buf_destroys = @ + 1]

shm_surface_data_destroy(m, i) ==
  LET m1 == [m EXCEPT !.heap[i].buf = "destroyed",
                      !.heap[i].buf_destroys = @ + 1]
  IN IF m1.heap[i].data_pool THEN shm_pool_destroy(m1, i) ELSE m1

(* cairo_surface_destroy drops one reference; the last one runs the user   *)
(* data destructor set at create_shm_surface_from_pool.                    *)
cairo_surface_destroy(m, p, ub) ==
  IF m.crashed \/ p = NULL THEN m
  ELSE IF p = GARBAGE \/ m.heap[p].surf_refs = 0 THEN UB(m, ub)
  ELSE LET m1 == [m EXCEPT !.heap[p].surf_refs = @ - 1]
       IN IF m1.heap[p].surf_refs = 0 THEN shm_surface_data_destroy(m1, p)
          ELSE m1

(* cairo_destroy frees the context, which holds a reference to its target. *)
cairo_destroy(m, p, ub) ==
  IF m.crashed \/ p = NULL THEN m
  ELSE IF p = GARBAGE \/ ~m.heap[p].cr_live THEN UB(m, ub)
  ELSE cairo_surface_destroy([m EXCEPT !.heap[p].cr_live = FALSE], p, ub)

(* g_object_unref(NULL) only warns.                                        *)
g_object_unref(m, p, what, ub) ==
  IF m.crashed \/ p = NULL THEN m
  ELSE IF p = GARBAGE \/ ~m.heap[p][what] THEN UB(m, ub)
  ELSE [m EXCEPT !.heap[p][what] = FALSE]

---------------------------------------------------------------------------
(* struct window and the buffer manager.                                   *)

create_shm_surface_from_pool(m, i) ==
  LET rect == m.window.rectangle
      stride == Stride(rect.width)
      length == stride * rect.height
      a == shm_pool_allocate(m.heap[i].pool, length)
  IN IF ~a.ok THEN [m EXCEPT !.window.cairo_surface = NULL]
     ELSE [m EXCEPT !.heap[i].pool = a.pool,
                    !.heap[i].surf_refs = 1,
                    !.heap[i].buf = "live",
                    !.heap[i].width = rect.width,
                    !.heap[i].height = rect.height,
                    !.heap[i].offset = a.offset,
                    !.window.cairo_surface = i]

window_allocate_buffer(m, envOk, ub) ==
  IF m.crashed THEN m
  ELSE
  LET m0 == Log(m, "window_allocate_buffer", <<>>)
      size == data_length_for_shm_surface(m0.window.rectangle)
  IN IF m0.window.shm = NULL /\ ub = "crash"
     THEN UB(m0, ub)                     \* assert(window->shm != nullptr)
     ELSE IF m0.window.shm = NULL \/ ~make_shm_pool(size, envOk)
     THEN [m0 EXCEPT !.alloc_ok = FALSE] \* could not allocate shm pool
     ELSE
     LET i == Len(m0.heap) + 1
         m1 == [m0 EXCEPT !.heap = Append(@, NewObj(shm_pool_create(size)))]
         m2 == create_shm_surface_from_pool(m1, i)
     IN IF m2.window.cairo_surface = NULL
        THEN [shm_pool_destroy(m2, i) EXCEPT !.alloc_ok = FALSE]
        ELSE [m2 EXCEPT !.heap[i].surf_refs = @ + 1, \* cairo_create
                        !.heap[i].cr_live = TRUE,
                        !.heap[i].layout_live = TRUE,
                        !.heap[i].ctx_live = TRUE,
                        !.heap[i].data_pool = TRUE,
                        !.window.cr = i,
                        !.window.layout = i,
                        !.window.pango_context = i,
                        !.alloc_ok = TRUE]

(* new struct window leaves cairo_surface, cr, layout and pango_context    *)
(* indeterminate: uninit is what the memory happens to hold.               *)
window_create(m, shm, width, height, uninit, envOk, ub) ==
  LET w == [rectangle |-> [x |-> 0, y |-> 0, width |-> width,
                           height |-> height],
            surface |-> 1, shm |-> shm,
            cairo_surface |-> uninit, cr |-> uninit,
            layout |-> uninit, pango_context |-> uninit]
  IN window_allocate_buffer(
       [Log(m, "window_create", <<width, height>>) EXCEPT !.window = w],
       envOk, ub)

(* Mutant: the fields are cleared without releasing what they point to.    *)
window_free_buffer_NoRelease(m, ub) ==
  [m EXCEPT !.window.cairo_surface = NULL, !.window.cr = NULL,
            !.window.layout = NULL, !.window.pango_context = NULL]

window_free_buffer(m, ub) ==
  LET w == m.window
      m1 == cairo_surface_destroy(m, w.cairo_surface, ub)
      m2 == cairo_destroy(m1, w.cr, ub)
      m3 == g_object_unref(m2, w.layout, "layout_live", ub)
      m4 == g_object_unref(m3, w.pango_context, "ctx_live", ub)
  IN IF m4.crashed THEN m4
     ELSE [m4 EXCEPT !.window.cairo_surface = NULL, !.window.cr = NULL,
                     !.window.layout = NULL, !.window.pango_context = NULL]

(* Mutant: the drawing context is never destroyed.                         *)
window_destroy_KeepContext(m, ub) ==
  LET w == m.window
      m0 == Log(m, "window_destroy", <<>>)
      m1 == cairo_surface_destroy(m0, w.cairo_surface, ub)
      m3 == g_object_unref(m1, w.layout, "layout_live", ub)
  IN g_object_unref(m3, w.pango_context, "ctx_live", ub)

window_destroy(m, ub) ==
  LET w == m.window
      m0 == Log(m, "window_destroy", <<>>)
      m1 == cairo_surface_destroy(m0, w.cairo_surface, ub)
      m2 == cairo_destroy(m1, w.cr, ub)
      m3 == g_object_unref(m2, w.layout, "layout_live", ub)
  IN g_object_unref(m3, w.pango_context, "ctx_live", ub)

(* Mutant: the new size is stored only once the new buffer exists.         *)
window_resize_SizeOnSuccess(m, width, height, envOk, ub) ==
  LET old == m.window.rectangle
      m1 == window_free_buffer(Log(m, "window_resize", <<width, height>>), ub)
      m2 == window_allocate_buffer(
              [m1 EXCEPT !.window.rectangle.width = width,
                         !.window.rectangle.height = height], envOk, ub)
  IN IF m1.crashed THEN m1
     ELSE IF m2.alloc_ok THEN m2
     ELSE [m2 EXCEPT !.window.rectangle = old]

window_resize(m, width, height, envOk, ub) ==
  LET m0 == Log(m, "window_resize", <<width, height>>)
      m1 == window_free_buffer(m0, ub)
  IN IF m1.crashed THEN m1
     ELSE window_allocate_buffer(
            [m1 EXCEPT !.window.rectangle.width = width,
                       !.window.rectangle.height = height], envOk, ub)

get_buffer_from_cairo_surface(m, p) == p \* the buffer of heap object p

(* Mutant: the commit marks nothing as damaged.                            *)
window_commit_buffer_NoDamage(m, ub) ==
  LET w == m.window
      m0 == Log(m, "window_commit_buffer", <<>>)
      m1 == IF ~Valid(w.cairo_surface) THEN UB(m0, ub) ELSE m0
      m2 == Log(m1, "wl_surface_attach", <<w.cairo_surface>>)
  IN Log(m2, "wl_surface_commit", <<>>)

window_commit_buffer(m, ub) ==
  LET w == m.window
      r == w.rectangle
      m0 == Log(m, "window_commit_buffer", <<>>)
      \* assert(window->cairo_surface != nullptr), then the user data of
      \* the surface is read: both need a live surface.
      bad == ~Valid(w.cairo_surface)
      m1 == IF bad THEN UB(m0, ub) ELSE m0
      m2 == Log(m1, "wl_surface_attach",
                <<IF bad THEN GARBAGE
                  ELSE get_buffer_from_cairo_surface(m1, w.cairo_surface)>>)
      m3 == Log(m2, "wl_surface_damage", <<r.x, r.y, r.width, r.height>>)
  IN Log(m3, "wl_surface_commit", <<>>)

window_get_width_height(w) == <<w.rectangle.width, w.rectangle.height>>

---------------------------------------------------------------------------
(* The font table (pango_fonts, indexed by selected_font).                 *)

(* struct pango_font as its constructor leaves it.                         *)
DefaultFont ==
  [desc |-> NULL, ascent |-> 0, descent |-> 0, font_alpha |-> 65535]

(* std::vector::resize: the first n entries kept, new ones default.        *)
Resize(fonts, n) ==
  [i \in 1..n |-> IF i <= Len(fonts) THEN fonts[i] ELSE DefaultFont]

FreeCalls(fonts) ==
  LET held == SelectSeq(fonts, LAMBDA font : font.desc # NULL)
  IN [i \in 1..Len(held) |->
        Ev("pango_font_description_free", <<held[i].desc>>)]

(* Mutant: the descriptions are freed but the table is not cleared.        *)
free_fonts_KeepTable(m) ==
  LET descs == {m.pango_fonts[i].desc : i \in 1..Len(m.pango_fonts)} \ {NULL}
  IN [Log(m, "free_fonts", <<>>) EXCEPT
        !.log = @ \o FreeCalls(m.pango_fonts),
        !.font_descs = [d \in 1..Len(m.font_descs) |->
                          IF d \in descs THEN m.font_descs[d] + 1
                          ELSE m.font_descs[d]]]

free_fonts(m) ==
  LET descs == {m.pango_fonts[i].desc : i \in 1..Len(m.pango_fonts)} \ {NULL}
  IN [Log(m, "free_fonts", <<>>) EXCEPT
        !.log = @ \o FreeCalls(m.pango_fonts),
        !.font_descs = [d \in 1..Len(m.font_descs) |->
                          IF d \in descs THEN m.font_descs[d] + 1
                          ELSE m.font_descs[d]],
        !.pango_fonts = <<>>]

(* load_fonts: the table resized to the configured fonts, then one new     *)
(* font description per font stored over whatever the slot held; the       *)
(* metrics are what pango reports.                                         *)
load_fonts(m, metrics, ub) ==
  LET m0 == Log(m, "load_fonts", <<>>)
      m1 == IF m0.window.pango_context = GARBAGE THEN UB(m0, ub) ELSE m0
      n == Len(m1.font_descs)
      resized == Resize(m1.pango_fonts, NumFonts)
  IN IF m1.crashed THEN m1
     ELSE [m1 EXCEPT
             !.pango_fonts = [i \in 1..NumFonts |->
                                [resized[i] EXCEPT !.desc = n + i,
                                                   !.ascent = metrics[1],
                                                   !.descent = metrics[2]]],
             !.font_descs = m1.font_descs \o [i \in 1..NumFonts |-> 0]]

---------------------------------------------------------------------------
(* Callbacks and the parts of conky.cc the backend calls.                  *)

xdg_toplevel_configure(m, width, height) ==
  [Log(m, "xdg_toplevel_configure", <<width, height>>) EXCEPT
     !.text_width = width - 2 * Border,
     !.text_height = height - 2 * Border,
     !.window.rectangle.width = width,
     !.window.rectangle.height = height]

(* wl_display_dispatch_pending: the queued configure events, in order; the *)
(* callers log the call with the number of events queued.                  *)
RECURSIVE dispatch_pending(_, _)
dispatch_pending(m, evs) ==
  IF evs = <<>> THEN m
  ELSE dispatch_pending(xdg_toplevel_configure(m, Head(evs)[1], Head(evs)[2]),
                        Tail(evs))

(* update_text_area(): recomputes the text size (text = <<w, h>>) or, with *)
(* a fixed size, leaves it (text = <<>>).                                  *)
update_text_area(m, text) ==
  IF text = <<>> THEN Log(m, "update_text_area", <<>>)
  ELSE [Log(m, "update_text_area", <<>>) EXCEPT !.text_width = text[1],
                                                !.text_height = text[2]]

clear_text(m, ub) ==
  LET m0 == Log(m, "clear_text", <<>>)
  IN IF Valid(m0.window.cr) THEN Log(m0, "cairo_paint", <<m0.window.cr>>)
     ELSE UB(m0, ub)

end_draw_stuff(m, ub) == window_commit_buffer(m, ub)

(* draw_stuff(): draws, then ends with end_draw_stuff().                   *)
draw_stuff(m, ub) == end_draw_stuff(Log(m, "draw_stuff", <<>>), ub)

wayland_create_window(m, text, metrics, ub) ==
  update_text_area(update_text_area(load_fonts(m, metrics, ub), text), text)

---------------------------------------------------------------------------
(* The handlers of display_output_wayland.  Each takes the machine state   *)
(* and the handler's inputs and yields the machine state it leaves, with   *)
(* the value it returns in .ret.                                           *)

Machine ==
  [window |-> window, heap |-> heap, text_width |-> text_width,
   text_height |-> text_height, need_to_update |-> need_to_update,
   added |-> added, pango_fonts |-> pango_fonts, font_descs |-> font_descs,
   alloc_ok |-> alloc_ok, global_display |-> global_display,
   global_window |-> global_window,
   log |-> <<>>, crashed |-> FALSE, ret |-> TRUE]

initialize(m, epollOk, connectOk, shmBound, uninit, envOk, cfg, text, metrics, ub) ==
  LET m0 == Log(m, "initialize", <<>>)
      dpy == IF connectOk THEN DPY ELSE NULL
      shm == IF connectOk /\ shmBound THEN SHM ELSE NULL
      m1 == [Log(m0, "wl_display_connect", <<dpy>>) EXCEPT
               !.global_display = dpy]
      m2 == Log(m1, "wl_display_get_registry", <<dpy>>)
      m3 == IF dpy = NULL THEN UB(m2, ub) ELSE m2
      m4 == Log(m3, "wl_display_roundtrip", <<>>)
      m5 == window_create(m4, shm, 1, 1, uninit, envOk, ub)
      m6 == IF m5.crashed THEN m5 ELSE [m5 EXCEPT !.global_window = WIN]
      m7 == Log(Log(m6, "wl_surface_commit", <<>>),
                "wl_display_roundtrip", <<>>)
      m8 == dispatch_pending(m7, cfg)
  IN IF ~epollOk THEN [m0 EXCEPT !.ret = FALSE]
     ELSE wayland_create_window(m8, text, metrics, ub)

(* main_loop_wait with the events read in the iteration dispatched only    *)
(* after the size comparison has read the window size.                     *)
main_loop_wait_LateDispatch(m, pending, epollOk, evs, upd, text, envOk, ub) ==
  LET m0 == Log(m, "main_loop_wait", <<>>)
      \* while (wl_display_prepare_read() != 0) wl_display_dispatch_pending()
      m1 == IF m0.global_display = NULL THEN UB(m0, ub) ELSE m0
      m2 == IF pending = <<>> THEN m1
            ELSE dispatch_pending(
                   Log(Log(m1, "wl_display_prepare_read", <<-1>>),
                       "wl_display_dispatch_pending", <<Len(pending)>>),
                   pending)
      m3 == Log(Log(m2, "wl_display_prepare_read", <<0>>),
                "wl_display_flush", <<>>)
      register == ~m3.added
      m4 == IF register THEN Log(m3, "epoll_ctl", <<>>) ELSE m3
      \* past the registration
      m5 == Log([m4 EXCEPT !.added = TRUE], "epoll_wait", <<>>)
      m6 == Log(m5, "wl_display_read_events", <<>>)
      \* update_text() may ask for a redraw
      m7 == IF upd THEN [Log(m6, "update_text", <<>>) EXCEPT
                           !.need_to_update = 1]
            ELSE Log(m6, "update_text", <<>>)
      \* if (need_to_update != 0) { ... }
      m7a == update_text_area([m7 EXCEPT !.need_to_update = 0], text)
      wh == window_get_width_height(m7a.window)
      m8 == dispatch_pending(
              Log(Log(m7a, "window_get_width_height", wh),
                  "wl_display_dispatch_pending", <<Len(evs)>>), evs)
      width == m8.text_width + 2 * Border
      height == m8.text_height + 2 * Border
      m9 == IF width # wh[1] \/ height # wh[2]
            THEN Log(window_resize(m8, width, height, envOk, ub),
                     "llua_update_window_table",
                     <<m8.text_width, m8.text_height>>)
            ELSE m8
      m10 == draw_stuff(clear_text(m9, ub), ub)
  IN IF register /\ ~epollOk /\ ~m4.crashed THEN [m4 EXCEPT !.ret = FALSE]
     ELSE IF m7.need_to_update # 0 THEN m10
     ELSE m7

main_loop_wait(m, pending, epollOk, evs, upd, text, envOk, ub) ==
  LET m0 == Log(m, "main_loop_wait", <<>>)
      \* while (wl_display_prepare_read() != 0) wl_display_dispatch_pending()
      m1 == IF m0.global_display = NULL THEN UB(m0, ub) ELSE m0
      m2 == IF pending = <<>> THEN m1
            ELSE dispatch_pending(
                   Log(Log(m1, "wl_display_prepare_read", <<-1>>),
                       "wl_display_dispatch_pending", <<Len(pending)>>),
                   pending)
      m3 == Log(Log(m2, "wl_display_prepare_read", <<0>>),
                "wl_display_flush", <<>>)
      register == ~m3.added
      m4 == IF register THEN Log(m3, "epoll_ctl", <<>>) ELSE m3
      \* past the registration
      m5 == Log([m4 EXCEPT !.added = TRUE], "epoll_wait", <<>>)
      m6 == dispatch_pending(
              Log(Log(m5, "wl_display_read_events", <<>>),
                  "wl_display_dispatch_pending", <<Len(evs)>>), evs)
      \* update_text() may ask for a redraw
      m7 == IF upd THEN [Log(m6, "update_text", <<>>) EXCEPT
                           !.need_to_update = 1]
            ELSE Log(m6, "update_text", <<>>)
      \* if (need_to_update != 0) { ... }
      m7a == update_text_area([m7 EXCEPT !.need_to_update = 0], text)
      wh == window_get_width_height(m7a.window)
      m8 == Log(m7a, "window_get_width_height", wh)
      width == m8.text_width + 2 * Border
      height == m8.text_height + 2 * Border
      m9 == IF width # wh[1] \/ height # wh[2]
            THEN Log(window_resize(m8, width, height, envOk, ub),
                     "llua_update_window_table",
                     <<m8.text_width, m8.text_height>>)
            ELSE m8
      m10 == draw_stuff(clear_text(m9, ub), ub)
  IN IF register /\ ~epollOk /\ ~m4.crashed THEN [m4 EXCEPT !.ret = FALSE]
     ELSE IF m7.need_to_update # 0 THEN m10
     ELSE m7

(* cleanup without clearing the window handle.                             *)
cleanup_KeepHandle(m, ub) ==
  LET m0 == Log(m, "cleanup", <<>>)
      m1 == IF m0.global_window # NULL
            THEN window_destroy(m0, ub)
            ELSE m0
  IN IF m1.crashed THEN m1 ELSE free_fonts(m1)

cleanup(m, ub) ==
  LET m0 == Log(m, "cleanup", <<>>)
      m1 == IF m0.global_window # NULL
            THEN [window_destroy(m0, ub) EXCEPT !.global_window = NULL]
            ELSE m0
  IN IF m1.crashed THEN m1 ELSE free_fonts(m1)

---------------------------------------------------------------------------
(* The backend as a state machine.                                         *)

NoWindow ==
  [rectangle |-> [x |-> 0, y |-> 0, width |-> 0, height |-> 0],
   surface |-> NULL, shm |-> NULL, cairo_surface |-> NULL, cr |-> NULL,
   layout |-> NULL, pango_context |-> NULL]

PoolIdle == [size |-> 0, used |-> 0, data |-> 1]

InitBackend ==
  /\ status = "uninit"
  /\ global_display = NULL
  /\ global_window = NULL
  /\ window = NoWindow
  /\ heap = <<>>
  /\ text_width = 1
  /\ text_height = 1
  /\ need_to_update = 1
  /\ added = FALSE
  /\ pango_fonts = <<>>
  /\ font_descs = <<>>
  /\ alloc_ok = FALSE
  /\ log = <<>>
  /\ ret = TRUE
  /\ iter = 0
  /\ cleanups = 0

InitPoolIdle ==
  /\ pool = PoolIdle
  /\ pool_prev = PoolIdle
  /\ pool_req = 0
  /\ pool_ret = [ok |-> FALSE, offset |-> 0]

InitColourIdle ==
  /\ colour_depth = 0
  /\ redmask = 0
  /\ greenmask = 0
  /\ bluemask = 0
  /\ depth_on_entry = 0
  /\ grad_in = <<>>
  /\ grad_out = <<>>
  /\ adj_in = 0
  /\ adj_out = 0

Init == InitBackend /\ InitPoolIdle /\ InitColourIdle

(* The globals a handler leaves, written back.                             *)
Commit(m, st) ==
  /\ status' = IF m.crashed THEN "crashed" ELSE st
  /\ global_display' = m.global_display
  /\ global_window' = m.global_window
  /\ window' = m.window
  /\ heap' = m.heap
  /\ text_width' = m.text_width
  /\ text_height' = m.text_height
  /\ need_to_update' = m.need_to_update
  /\ added' = m.added
  /\ pango_fonts' = m.pango_fonts
  /\ font_descs' = m.font_descs
  /\ alloc_ok' = m.alloc_ok
  /\ log' = m.log
  /\ ret' = m.ret

Configs == {<<>>} \cup {<<c>> : c \in ConfigDims}

Initialize ==
  /\ status = "uninit"
  /\ \E epollOk, connectOk, shmBound, envOk \in BOOLEAN,
        uninit \in {NULL, GARBAGE}, cfg \in Configs, text \in TextDims,
        metrics \in FontMetrics, ub \in {"crash", "ignore"} :
       LET m == initialize(Machine, epollOk, connectOk, shmBound, uninit,
                           envOk, cfg, text, metrics, ub)
       IN Commit(m, IF m.ret THEN "running" ELSE "failed")
  /\ UNCHANGED <<iter, cleanups, pool_vars, colour_vars>>

MainLoopWait ==
  /\ status = "running"
  /\ iter < MaxIter
  /\ \E pending \in Configs, evs \in Configs, epollOk, upd, envOk \in BOOLEAN,
        text \in TextDims \cup {<<>>}, ub \in {"crash", "ignore"} :
       Commit(main_loop_wait(Machine, pending, epollOk, evs, upd, text,
                             envOk, ub), "running")
  /\ iter' = iter + 1
  /\ UNCHANGED <<cleanups, pool_vars, colour_vars>>

Cleanup ==
  /\ status \in {"running", "terminated"}
  /\ cleanups < MaxCleanups
  /\ \E ub \in {"crash", "ignore"} : Commit(cleanup(Machine, ub), "terminated")
  /\ cleanups' = cleanups + 1
  /\ UNCHANGED <<iter, pool_vars, colour_vars>>

Next == Initialize \/ MainLoopWait \/ Cleanup

Spec == Init /\ [][Next]_vars

---------------------------------------------------------------------------
(* The pool allocator on its own: a pool as shm_pool_create leaves it,     *)
(* then any sequence of shm_pool_allocate requests.  Request sizes are     *)
(* size_t: -1 and -2 stand for SIZE_MAX and SIZE_MAX - 1.                  *)

ReqSizes == (0..(MaxPoolSize + 1)) \cup {-1, -2}

InitPool ==
  /\ pool \in {shm_pool_create(n) : n \in 0..MaxPoolSize}
  /\ pool_prev = pool
  /\ pool_req = 0
  /\ pool_ret = [ok |-> FALSE, offset |-> 0]

PoolAllocate ==
  /\ \E size \in ReqSizes :
       LET a == shm_pool_allocate(pool, size)
       IN /\ pool' = a.pool
          /\ pool_prev' = pool
          /\ pool_req' = size
          /\ pool_ret' = [ok |-> a.ok, offset |-> a.offset]
  /\ UNCHANGED <<backend_vars, colour_vars>>

NextPool == PoolAllocate

InitPoolSpec == InitBackend /\ InitPool /\ InitColourIdle

SpecPool == InitPoolSpec /\ [][NextPool]_vars

---------------------------------------------------------------------------
(* The colour engine.  Bit operations on non-negative integers.            *)

RECURSIVE BitAnd(_, _)
BitAnd(a, b) ==
  IF a = 0 \/ b = 0 THEN 0
  ELSE 2 * BitAnd(a \div 2, b \div 2) + (IF a % 2 = 1 /\ b % 2 = 1 THEN 1 ELSE 0)

RECURSIVE BitOr(_, _)
BitOr(a, b) ==
  IF a = 0 THEN b
  ELSE IF b = 0 THEN a
  ELSE 2 * BitOr(a \div 2, b \div 2) + (IF a % 2 = 1 \/ b % 2 = 1 THEN 1 ELSE 0)

Shl(a, n) == a * 2 ^ n
Shr(a, n) == a \div 2 ^ n
Abs(a) == IF a < 0 THEN -a ELSE a
Max(a, b) == IF a > b THEN a ELSE b

ColourState ==
  [colour_depth |-> colour_depth, redmask |-> redmask,
   greenmask |-> greenmask, bluemask |-> bluemask]

(* set_up_gradient: planes is DisplayPlanes() when drawing to X11, and 16  *)
(* otherwise.                                                              *)
set_up_gradient(planes) ==
  LET d == planes
      low == 2 ^ (d \div 3) - 1
      green == IF d % 3 = 1 THEN BitOr(low, Shl(1, d \div 3)) ELSE low
  IN [colour_depth |-> d,
      redmask |-> Shl(low, ((2 * d) \div 3) + (d % 3)),
      greenmask |-> Shl(green, d \div 3),
      bluemask |-> low]

(* static_cast<int>(v * CONST_8_TO_5_BITS): the constant is just below     *)
(* 31/255, so 255 maps to 30; for v in 0..254 the product truncates as the *)
(* exact quotient does.  CONST_8_TO_6_BITS is just above 63/255.           *)
To5Bits(v) == IF v = 255 THEN 30 ELSE (v * 31) \div 255
To6Bits(v) == (v * 63) \div 255

(* Mutant: the 5/6/5 conversion is applied at every depth.                 *)
adjust_colours_AnyDepth(colour, cs, planes) ==
  LET cs1 == IF cs.colour_depth = 0 THEN set_up_gradient(planes) ELSE cs
      r == Shr(BitAnd(colour, 16711680), 16)
      g == Shr(BitAnd(colour, 65280), 8)
      b == BitAnd(colour, 255)
  IN [cs |-> cs1,
      out |-> BitOr(BitOr(Shl(To5Bits(r), 11), Shl(To6Bits(g), 5)),
                    To5Bits(b))]

adjust_colours(colour, cs, planes) ==
  LET cs1 == IF cs.colour_depth = 0 THEN set_up_gradient(planes) ELSE cs
      r == Shr(BitAnd(colour, 16711680), 16)
      g == Shr(BitAnd(colour, 65280), 8)
      b == BitAnd(colour, 255)
  IN [cs |-> cs1,
      out |-> IF cs1.colour_depth = 16
              THEN BitOr(BitOr(Shl(To5Bits(r), 11), Shl(To6Bits(g), 5)),
                         To5Bits(b))
              ELSE colour]

(* One channel of one gradient element: c1 + round(factor * diff), rounded *)
(* half away from zero through the int conversion, then clamped.  With     *)
(* factor = i / (width - 1) in float the product rounds as the exact       *)
(* quotient does for every width below 13.                                 *)
GradientChannel(c1, c2, i, width, cs) ==
  LET diff == Abs(c1 - c2)
      step == (2 * i * diff + (width - 1)) \div (2 * (width - 1))
      c3 == IF c1 >= c2 THEN c1 - step ELSE c1 + step
  IN IF c3 < 0 THEN 0 ELSE IF c3 > cs.bluemask THEN cs.bluemask ELSE c3

(* Mutant: the minimum width is 3.                                         *)
do_gradient_AtLeastThree(width0, first_colour, last_colour, cs, planes) ==
  LET redshift == ((2 * cs.colour_depth) \div 3) + (cs.colour_depth % 3)
      greenshift == cs.colour_depth \div 3
      width == Max(3, width0)
      cs1 == IF cs.colour_depth = 0 THEN set_up_gradient(planes) ELSE cs
      red1 == Shr(BitAnd(first_colour, cs1.redmask), redshift)
      green1 == Shr(BitAnd(first_colour, cs1.greenmask), greenshift)
      blue1 == BitAnd(first_colour, cs1.bluemask)
      red2 == Shr(BitAnd(last_colour, cs1.redmask), redshift)
      green2 == Shr(BitAnd(last_colour, cs1.greenmask), greenshift)
      blue2 == BitAnd(last_colour, cs1.bluemask)
  IN [cs |-> cs1,
      out |-> [k \in 1..width |->
                 BitOr(BitOr(Shl(GradientChannel(red1, red2, k - 1, width, cs1),
                                 redshift),
                             Shl(GradientChannel(green1, green2, k - 1, width,
                                                 cs1), greenshift)),
                       GradientChannel(blue1, blue2, k - 1, width, cs1))]]

do_gradient(width0, first_colour, last_colour, cs, planes) ==
  LET redshift == ((2 * cs.colour_depth) \div 3) + (cs.colour_depth % 3)
      greenshift == cs.colour_depth \div 3
      width == Max(2, width0)
      cs1 == IF cs.colour_depth = 0 THEN set_up_gradient(planes) ELSE cs
      red1 == Shr(BitAnd(first_colour, cs1.redmask), redshift)
      green1 == Shr(BitAnd(first_colour, cs1.greenmask), greenshift)
      blue1 == BitAnd(first_colour, cs1.bluemask)
      red2 == Shr(BitAnd(last_colour, cs1.redmask), redshift)
      green2 == Shr(BitAnd(last_colour, cs1.greenmask), greenshift)
      blue2 == BitAnd(last_colour, cs1.bluemask)
  IN [cs |-> cs1,
      out |-> [k \in 1..width |->
                 BitOr(BitOr(Shl(GradientChannel(red1, red2, k - 1, width, cs1),
                                 redshift),
                             Shl(GradientChannel(green1, green2, k - 1, width,
                                                 cs1), greenshift)),
                       GradientChannel(blue1, blue2, k - 1, width, cs1))]]

Colours == {0, 2016, 63488, 65535, 1193046, 16777215}
Widths == (-1)..MaxWidth
(* The display is asked for its depth only when set_up_gradient runs.      *)
Planes == IF colour_depth = 0 THEN {16, 24} ELSE {colour_depth}

SetColourState(cs) ==
  /\ colour_depth' = cs.colour_depth
  /\ redmask' = cs.redmask
  /\ greenmask' = cs.greenmask
  /\ bluemask' = cs.bluemask

DoGradient ==
  /\ \E width \in Widths, first \in Colours, last \in Colours,
        planes \in Planes :
       LET g == do_gradient(width, first, last, ColourState, planes)
       IN /\ SetColourState(g.cs)
          /\ grad_in' = <<width, first, last>>
          /\ grad_out' = g.out
  /\ depth_on_entry' = colour_depth
  /\ adj_in' = 0
  /\ adj_out' = 0
  /\ UNCHANGED <<backend_vars, pool_vars>>

AdjustColours ==
  /\ \E colour \in Colours, planes \in Planes :
       LET a == adjust_colours(colour, ColourState, planes)
       IN /\ SetColourState(a.cs)
          /\ adj_in' = colour
          /\ adj_out' = a.out
  /\ depth_on_entry' = colour_depth
  /\ grad_in' = <<>>
  /\ grad_out' = <<>>
  /\ UNCHANGED <<backend_vars, pool_vars>>

NextColour == DoGradient \/ AdjustColours

InitColourSpec == InitBackend /\ InitPoolIdle /\ InitColourIdle

SpecColour == InitColourSpec /\ [][NextColour]_vars

---------------------------------------------------------------------------
(* The drawing primitives, called by the drawing code of conky.cc on a     *)
(* window that window_create has set up.  A primitive's cairo calls are    *)
(* logged with the device coordinates they are given; cairo_translate and  *)
(* cairo_scale take doubles and are logged in half pixels.                 *)

adjust_coords(m, x, y) ==
  <<x + (m.window.rectangle.width \div 2) + Border,
    y + m.window.rectangle.height + Border>>

draw_string_at(m, x, y, ub) ==
  LET m0 == Log(m, "draw_string_at", <<x, y>>)
      p == adjust_coords(m0, x, y)
  IN IF ~Valid(m0.window.layout) \/ ~Valid(m0.window.cr) THEN UB(m0, ub)
     ELSE Log(Log(m0, "cairo_move_to", p), "pango_cairo_show_layout", <<>>)

draw_line(m, x1, y1, x2, y2, ub) ==
  LET m0 == Log(m, "draw_line", <<x1, y1, x2, y2>>)
      p1 == adjust_coords(m0, x1, y1)
      p2 == adjust_coords(m0, x2, y2)
  IN IF ~Valid(m0.window.cr) THEN UB(m0, ub)
     ELSE Log(Log(Log(m0, "cairo_move_to", p1), "cairo_line_to", p2),
              "cairo_stroke", <<>>)

do_rect(m, x, y, w, h, fill, ub) ==
  LET p == adjust_coords(m, x, y)
      m1 == Log(m, "cairo_rectangle", <<p[1], p[2] + h * 3, w, h>>)
      m2 == IF fill THEN Log(m1, "cairo_fill", <<>>) ELSE m1
  IN IF ~Valid(m.window.cr) THEN UB(m, ub)
     ELSE Log(m2, "cairo_stroke", <<>>)

draw_rect(m, x, y, w, h, ub) ==
  do_rect(Log(m, "draw_rect", <<x, y, w, h>>), x, y, w, h, FALSE, ub)

fill_rect(m, x, y, w, h, ub) ==
  do_rect(Log(m, "fill_rect", <<x, y, w, h>>), x, y, w, h, TRUE, ub)

draw_arc(m, x, y, w, h, a1, a2, ub) ==
  LET m0 == Log(m, "draw_arc", <<x, y, w, h, a1, a2>>)
      p == adjust_coords(m0, x, y)
  IN IF ~Valid(m0.window.cr) THEN UB(m0, ub)
     ELSE Log(Log(Log(m0, "cairo_translate", <<2 * p[1] + w, 2 * p[2] + h>>),
                  "cairo_scale", <<w, h>>),
              "cairo_arc", <<a2, a2>>)

(* The globals before initialize, as a machine state.                      *)
Machine0 ==
  [window |-> NoWindow, heap |-> <<>>, text_width |-> 1, text_height |-> 1,
   need_to_update |-> 1, added |-> FALSE, pango_fonts |-> <<>>,
   font_descs |-> <<>>, alloc_ok |-> FALSE, global_display |-> NULL,
   global_window |-> NULL, log |-> <<>>, crashed |-> FALSE, ret |-> TRUE]

(* The globals hold machine state m and the process is in state st.        *)
Holds(m, st) ==
  /\ status = st
  /\ global_display = m.global_display
  /\ global_window = m.global_window
  /\ window = m.window
  /\ heap = m.heap
  /\ text_width = m.text_width
  /\ text_height = m.text_height
  /\ need_to_update = m.need_to_update
  /\ added = m.added
  /\ pango_fonts = m.pango_fonts
  /\ font_descs = m.font_descs
  /\ alloc_ok = m.alloc_ok
  /\ log = m.log
  /\ ret = m.ret
  /\ iter = 0
  /\ cleanups = 0

(* A connected display with its window: w by h, with a buffer when envOk.  *)
WithWindow(w, h, envOk) ==
  [window_create([Machine0 EXCEPT !.global_display = DPY], SHM, w, h, NULL,
                 envOk, "ignore")
     EXCEPT !.global_window = WIN, !.log = <<>>]

DrawSizes == {<<1, 1>>, <<4, 3>>, <<5, 2>>}
Coords == {-1, 0, 2}
Extents == {0, 2, 3}
Angles == {0, 90}

InitDrawSpec ==
  /\ \E size \in DrawSizes, envOk \in BOOLEAN :
       Holds(WithWindow(size[1], size[2], envOk), "running")
  /\ InitPoolIdle
  /\ InitColourIdle

DrawStringAt ==
  /\ status = "running"
  /\ \E x \in Coords, y \in Coords, ub \in {"crash", "ignore"} :
       Commit(draw_string_at(Machine, x, y, ub), "running")
  /\ UNCHANGED <<iter, cleanups, pool_vars, colour_vars>>

DrawLine ==
  /\ status = "running"
  /\ \E x1 \in Coords, y1 \in Coords, x2 \in Coords, y2 \in Coords,
        ub \in {"crash", "ignore"} :
       Commit(draw_line(Machine, x1, y1, x2, y2, ub), "running")
  /\ UNCHANGED <<iter, cleanups, pool_vars, colour_vars>>

DrawRect ==
  /\ status = "running"
  /\ \E x \in Coords, y \in Coords, w \in Extents, h \in Extents,
        ub \in {"crash", "ignore"} :
       Commit(draw_rect(Machine, x, y, w, h, ub), "running")
  /\ UNCHANGED <<iter, cleanups, pool_vars, colour_vars>>

FillRect ==
  /\ status = "running"
  /\ \E x \in Coords, y \in Coords, w \in Extents, h \in Extents,
        ub \in {"crash", "ignore"} :
       Commit(fill_rect(Machine, x, y, w, h, ub), "running")
  /\ UNCHANGED <<iter, cleanups, pool_vars, colour_vars>>

DrawArc ==
  /\ status = "running"
  /\ \E x \in Coords, y \in Coords, w \in Extents, h \in Extents,
        a1 \in Angles, a2 \in Angles, ub \in {"crash", "ignore"} :
       Commit(draw_arc(Machine, x, y, w, h, a1, a2, ub), "running")
  /\ UNCHANGED <<iter, cleanups, pool_vars, colour_vars>>

NextDraw == DrawStringAt \/ DrawLine \/ DrawRect \/ FillRect \/ DrawArc

SpecDraw == InitDrawSpec /\ [][NextDraw]_vars

---------------------------------------------------------------------------
(* The font table on its own: the xftalpha setter that runs when the       *)
(* configuration is loaded (in a build with BUILD_XFT), load_fonts,        *)
(* free_fonts and the metric queries, on a backend whose window exists.    *)

MaxLoads == 2       \* load_fonts calls explored

(* xftalpha's lua_setter; init is true when the configuration is loaded,   *)
(* wayland is out_to_wayland, alpha the setting scaled to 0..0xffff.       *)
xftalpha_setter(m, init, wayland, alpha) ==
  LET m0 == Log(m, "xftalpha_setter", <<alpha>>)
      resized == Resize(m0.pango_fonts, Max(1, NumFonts))
  IN IF init /\ wayland
     THEN [m0 EXCEPT !.pango_fonts = [resized EXCEPT ![1].desc = NULL,
                                                     ![1].font_alpha = alpha]]
     ELSE m0

(* assert(f < pango_fonts.size()): where the assertion does not stop the   *)
(* process (NDEBUG) the read that follows is out of range and yields junk. *)
FontMetric(m, f, fallback, ub, junk, metric) ==
  IF Len(m.pango_fonts) = 0 THEN [m EXCEPT !.ret = fallback]
  ELSE LET m1 == Log(m, "assert", <<f < Len(m.pango_fonts)>>)
           font == m.pango_fonts[f + 1]
       IN IF f < Len(m.pango_fonts)
          THEN [m1 EXCEPT !.ret = IF metric = "height"
                                  THEN font.ascent + font.descent
                                  ELSE font[metric]]
          ELSE [UB(m1, ub) EXCEPT !.ret = junk]

(* Mutant: the height is the ascent alone.                                 *)
font_height_AscentOnly(m, f, ub, junk) ==
  FontMetric(Log(m, "font_height", <<f>>), f, 2, ub, junk, "ascent")

font_height(m, f, ub, junk) ==
  FontMetric(Log(m, "font_height", <<f>>), f, 2, ub, junk, "height")

font_ascent(m, f, ub, junk) ==
  FontMetric(Log(m, "font_ascent", <<f>>), f, 1, ub, junk, "ascent")

font_descent(m, f, ub, junk) ==
  FontMetric(Log(m, "font_descent", <<f>>), f, 1, ub, junk, "descent")

AlphaValues == {32767, 65535}
FontIndexes == 0..NumFonts
JunkValues == {0, 7}

InitFontSpec ==
  /\ Holds(WithWindow(1, 1, TRUE), "running")
  /\ InitPoolIdle
  /\ InitColourIdle

XftalphaSetter ==
  /\ status = "running"
  /\ log = <<>>
  /\ \E wayland \in BOOLEAN, alpha \in AlphaValues :
       Commit(xftalpha_setter(Machine, TRUE, wayland, alpha), "running")
  /\ UNCHANGED <<iter, cleanups, pool_vars, colour_vars>>

LoadFonts ==
  /\ status = "running"
  /\ Len(font_descs) < MaxLoads * NumFonts
  /\ \E metrics \in FontMetrics, ub \in {"crash", "ignore"} :
       Commit(load_fonts(Machine, metrics, ub), "running")
  /\ UNCHANGED <<iter, cleanups, pool_vars, colour_vars>>

FreeFonts ==
  /\ status = "running"
  /\ Commit(free_fonts(Machine), "running")
  /\ UNCHANGED <<iter, cleanups, pool_vars, colour_vars>>

FontHeight ==
  /\ status = "running"
  /\ \E f \in FontIndexes, ub \in {"crash", "ignore"}, junk \in JunkValues :
       Commit(font_height(Machine, f, ub, junk), "running")
  /\ UNCHANGED <<iter, cleanups, pool_vars, colour_vars>>

FontAscent ==
  /\ status = "running"
  /\ \E f \in FontIndexes, ub \in {"crash", "ignore"}, junk \in JunkValues :
       Commit(font_ascent(Machine, f, ub, junk), "running")
  /\ UNCHANGED <<iter, cleanups, pool_vars, colour_vars>>

FontDescent ==
  /\ status = "running"
  /\ \E f \in FontIndexes, ub \in {"crash", "ignore"}, junk \in JunkValues :
       Commit(font_descent(Machine, f, ub, junk), "running")
  /\ UNCHANGED <<iter, cleanups, pool_vars, colour_vars>>

NextFont ==
  \/ XftalphaSetter
  \/ LoadFonts
  \/ FreeFonts
  \/ FontHeight
  \/ FontAscent
  \/ FontDescent

SpecFont == InitFontSpec /\ [][NextFont]_vars

---------------------------------------------------------------------------
(* The colour parser (get_x11_color without X11).  A name is a sequence of *)
(* characters.  A long is written as its four low bytes, least significant *)
(* first (the byte order memcpy meets on a little-endian machine), and its *)
(* upper half: 0, -1 (all ones) or any other word.                         *)

CharCode(c) ==
  CASE c = "#" -> 35 [] c = "/" -> 47 [] c = "0" -> 48 [] c = "9" -> 57
    [] c = "A" -> 65 [] c = "F" -> 70 [] c = "a" -> 97 [] c = "d" -> 100
    [] c = "e" -> 101 [] c = "f" -> 102 [] c = "g" -> 103 [] c = "n" -> 110
    [] c = "r" -> 114 [] c = "v" -> 118 [] c = "y" -> 121 [] c = "z" -> 122

(* Mutant: a character that is no hex digit counts as 0.                   *)
hex_nibble_value_Lenient(c) ==
  LET v == CharCode(c)
  IN IF v >= 48 /\ v <= 57 THEN v - 48
     ELSE IF v >= 97 /\ v <= 102 THEN v - 97 + 10
     ELSE IF v >= 65 /\ v <= 70 THEN v - 65 + 10
     ELSE 0

hex_nibble_value(c) ==
  LET v == CharCode(c)
  IN IF v >= 48 /\ v <= 57 THEN v - 48
     ELSE IF v >= 97 /\ v <= 102 THEN v - 97 + 10
     ELSE IF v >= 65 /\ v <= 70 THEN v - 65 + 10
     ELSE -1

(* OsLookupColor: the colour database, here with two of its names; the     *)
(* channels are given as the caller masks them (& 0xff).                   *)
ColourDB ==
  (<<"r", "e", "d">> :> <<255, 0, 0>>) @@
  (<<"n", "a", "v", "y">> :> <<0, 0, 128>>)

(* junk is what the upper half of the uninitialised long out holds: only   *)
(* its four low bytes are written by the memcpy.                           *)
get_x11_color(m, name, junk) ==
  LET m0 == Log(m, "get_x11_color", <<name>>)
      digits == IF name # <<>> /\ name[1] = "#" THEN Tail(name) ELSE name
      len == Len(digits)
      pairs == len \div 2
      val(q) == hex_nibble_value(digits[2 * q + 1]) * 16
                + hex_nibble_value(digits[2 * q + 2])
      bad == \E i \in 1..(2 * pairs) : hex_nibble_value(digits[i]) < 0
      \* argb[3 - i / 2] = val over {0xff, 0, 0, 0}
      argb == [k \in 0..3 |-> IF 3 - k < pairs THEN val(3 - k)
                              ELSE IF k = 0 THEN 255 ELSE 0]
  IN IF name \in DOMAIN ColourDB
     THEN LET rgb == ColourDB[name]
          IN [m0 EXCEPT !.ret = [lo |-> <<255, rgb[3], rgb[2], rgb[1]>>,
                                 hi |-> IF rgb[1] >= 128 THEN -1 ELSE 0]]
     ELSE IF len \in {6, 8} /\ ~bad
     THEN [m0 EXCEPT !.ret = [lo |-> <<argb[0], argb[1], argb[2], argb[3]>>,
                              hi |-> junk]]
     ELSE [Log(m0, "NORM_ERR", <<digits, len>>) EXCEPT
             !.ret = [lo |-> <<255, 0, 255, 0>>, hi |-> 0]]

HeadChars == {"0", "9", "a", "f", "A", "F", "g", "/"}
Tails ==
  {<<>>, <<"0">>, <<"0", "0", "f", "f">>, <<"0", "0", "f", "g">>,
   <<"0", "0", "f", "f", "0">>, <<"0", "0", "f", "f", "0", "0">>,
   <<"f", "f", "0", "0">>, <<"f", "f", "0", "0", "f", "f">>}
Bodies ==
  {<<c1, c2>> \o t : c1 \in HeadChars, c2 \in HeadChars, t \in Tails}
    \cup DOMAIN ColourDB \cup {<<>>, <<"z", "z">>}
Names == Bodies \cup {<<"#">> \o b : b \in Bodies}
HighWords == {0, 1}

InitParseSpec ==
  /\ Holds(Machine0, "running")
  /\ InitPoolIdle
  /\ InitColourIdle

GetX11Color ==
  /\ status = "running"
  /\ \E name \in Names, junk \in HighWords :
       Commit(get_x11_color(Machine, name, junk), "running")
  /\ UNCHANGED <<iter, cleanups, pool_vars, colour_vars>>

NextParse == GetX11Color

SpecParse == InitParseSpec /\ [][NextParse]_vars

---------------------------------------------------------------------------
(* Properties of the display backend (checked under Spec).                 *)

LastOp == IF log = <<>> THEN "none" ELSE log[1].op
LiveSurfaces == {i \in 1..Len(heap) : heap[i].surf_refs > 0}
SurfaceRequests ==
  SelectSeq(log, LAMBDA e : e.op \in {"wl_surface_attach", "wl_surface_damage",
                                      "wl_surface_commit"})
ResizeArgs == log[CHOOSE i \in 1..Len(log) : log[i].op = "window_resize"].args

(* C1: a main_loop_wait iteration that finds the needs-update flag set and *)
(* ends with a valid buffer makes exactly one window_commit_buffer, whose  *)
(* requests are, in order, one attach of the current buffer, one damage of *)
(* the window's whole rectangle and one surface commit.                    *)
C1_OneCommitFullDamage ==
  (/\ LastOp = "main_loop_wait"
   /\ status = "running"
   /\ HasOp(log, "update_text_area")
   /\ Valid(window.cairo_surface))
  => /\ CountOp(log, "window_commit_buffer") = 1
     /\ SurfaceRequests =
          <<Ev("wl_surface_attach", <<window.cairo_surface>>),
            Ev("wl_surface_damage",
               <<window.rectangle.x, window.rectangle.y,
                 window.rectangle.width, window.rectangle.height>>),
            Ev("wl_surface_commit", <<>>)>>

C1_Witness ==
  /\ LastOp = "main_loop_wait"
  /\ status = "running"
  /\ HasOp(log, "window_resize")
  /\ Valid(window.cairo_surface)
  /\ window.rectangle.width = 4
  /\ CountOp(log, "wl_surface_damage") = 1

(* C2: every pool shm_pool_create returned is destroyed at most once, only *)
(* after the compositor buffer created from it was destroyed; while the    *)
(* backend runs the only pool alive is the one behind the window's current *)
(* surface, and after cleanup every pool has been destroyed exactly once.  *)
C2_PoolDestroyedOnce ==
  \A i \in 1..Len(heap) :
    /\ heap[i].pool_destroys <= 1
    /\ heap[i].order_ok
    /\ heap[i].pool_destroys = 1 => heap[i].buf # "live"
    /\ status = "running" /\ heap[i].pool_live => window.cairo_surface = i
    /\ status = "terminated" => heap[i].pool_destroys = 1

C2_Witness ==
  /\ status = "terminated"
  /\ Len(heap) >= 2
  /\ \A i \in 1..Len(heap) :
       heap[i].pool_destroys = 1 /\ heap[i].buf_destroys = 1

(* C3, as stated: while the backend runs the window owns exactly one live  *)
(* Surface.                                                                *)
C3_ExactlyOneSurface ==
  status = "running" => Cardinality(LiveSurfaces) = 1

(* C3, amended: while the backend runs the window never owns two live      *)
(* Surfaces; it owns exactly one, its current one, when its last           *)
(* window_allocate_buffer succeeded, and none when that allocation failed. *)
C3_AtMostOneSurface ==
  status = "running" =>
    /\ Cardinality(LiveSurfaces) <= 1
    /\ alloc_ok => LiveSurfaces = {window.cairo_surface}
    /\ ~alloc_ok => LiveSurfaces = {}

C3_Witness ==
  /\ status = "running"
  /\ LastOp = "main_loop_wait"
  /\ HasOp(log, "window_resize")
  /\ ~alloc_ok
  /\ Len(heap) >= 1
  /\ LiveSurfaces = {}

(* C4: a main_loop_wait iteration in which the window has no valid buffer  *)
(* (surface and drawing context null after a failed allocation) clears     *)
(* nothing, calls no draw callback and commits no buffer.                  *)
C4_NoDrawWithoutBuffer ==
  (/\ LastOp = "main_loop_wait"
   /\ ~alloc_ok
   /\ window.cairo_surface = NULL
   /\ window.cr = NULL)
  => /\ ~HasOp(log, "clear_text")
     /\ ~HasOp(log, "draw_stuff")
     /\ ~HasOp(log, "window_commit_buffer")

(* C5: after an iteration whose resize failed to allocate, a following     *)
(* iteration that finds the needs-update flag set and leaves the text      *)
(* geometry as it was calls window_allocate_buffer again.                  *)
C5_RetryAfterFailedResize ==
  [][(/\ status = "running"
      /\ LastOp = "main_loop_wait"
      /\ HasOp(log, "window_resize")
      /\ ~alloc_ok
      /\ iter' = iter + 1
      /\ HasOp(log', "update_text_area")
      /\ text_width' = text_width
      /\ text_height' = text_height)
     => HasOp(log', "window_allocate_buffer")]_vars

(* C6: once window_resize(window, W, H) has run, whether or not its        *)
(* allocation succeeded, window_get_width_height(window) is (W, H).        *)
C6_ResizeThenGet ==
  (/\ LastOp = "main_loop_wait"
   /\ HasOp(log, "window_resize")
   /\ HasOp(log, "window_allocate_buffer"))
  => window_get_width_height(window) = ResizeArgs

C6_Witness ==
  /\ LastOp = "main_loop_wait"
  /\ HasOp(log, "window_resize")
  /\ HasOp(log, "window_allocate_buffer")
  /\ ~alloc_ok
  /\ window_get_width_height(window) = <<4, 3>>

(* C10: when wl_display_connect yields no display, initialize returns      *)
(* false and neither uses the connection, nor creates the window, nor      *)
(* loads fonts.                                                            *)
C10_ConnectFailureReported ==
  (/\ LastOp = "initialize"
   /\ HasOp(log, "wl_display_connect")
   /\ global_display = NULL)
  => /\ ret = FALSE
     /\ status = "failed"
     /\ ~HasOp(log, "wl_display_get_registry")
     /\ ~HasOp(log, "window_create")
     /\ ~HasOp(log, "load_fonts")

Geometry == <<window.rectangle.width, window.rectangle.height,
              text_width, text_height>>
FirstIndex(l, op) ==
  CHOOSE i \in 1..Len(l) : l[i].op = op /\ \A j \in 1..(i - 1) : l[j].op # op

(* C12: a main_loop_wait iteration that changes the window geometry (the   *)
(* rectangle's or the text area's width or height, by a resize or by a     *)
(* configure callback) and then draws has called llua_update_window_table  *)
(* with the new text-area size before the draw.                            *)
C12_GeometryChangeUpdatesTable ==
  [][(/\ status = "running"
      /\ status' = "running"
      /\ iter' = iter + 1
      /\ HasOp(log', "draw_stuff")
      /\ Geometry' # Geometry)
     => \E i \in 1..Len(log') :
          /\ log'[i] = Ev("llua_update_window_table",
                          <<text_width', text_height'>>)
          /\ i < FirstIndex(log', "draw_stuff")]_vars

C29_CleanupIdempotent ==
  [][(status = "terminated" /\ cleanups' = cleanups + 1)
     => /\ status' = "terminated"
        /\ ~HasOp(log', "window_destroy")
        /\ ~HasOp(log', "pango_font_description_free")
        /\ global_window' = NULL
        /\ pango_fonts' = <<>>
        /\ heap' = heap
        /\ window' = window
        /\ font_descs' = font_descs
        /\ global_display' = global_display]_vars

C29_Witness ==
  /\ status = "terminated"
  /\ cleanups = 2
  /\ log = <<Ev("cleanup", <<>>), Ev("free_fonts", <<>>)>>
  /\ Len(heap) >= 1
  /\ global_window = NULL

(* C30: the one allocation window_allocate_buffer makes in a pool it has   *)
(* created never fails, and every pool backing a live surface holds that   *)
(* single allocation at offset 0 filling the pool: used = size = stride *  *)
(* height of the rectangle the surface was allocated for.                  *)
C30_SurfaceFillsItsPool ==
  /\ \A i \in 1..Len(heap) : heap[i].buf # "none"
  /\ \A i \in LiveSurfaces :
       /\ heap[i].pool_live
       /\ heap[i].offset = 0
       /\ heap[i].pool.used = heap[i].pool.size
       /\ heap[i].pool.size = Stride(heap[i].width) * heap[i].height

C30_Witness ==
  /\ status = "running"
  /\ Len(heap) >= 2
  /\ \E i \in LiveSurfaces :
       /\ window.cairo_surface = i
       /\ heap[i].width = 4 /\ heap[i].height = 3
       /\ heap[i].pool.used = 48

(* C20: at a buffer commit made by a main_loop_wait iteration the buffer   *)
(* committed is text_width + 2*border wide and text_height + 2*border      *)
(* high, which is also the rectangle the damage request names.             *)
C20_CommittedBufferMatchesGeometry ==
  (/\ LastOp = "main_loop_wait"
   /\ status = "running"
   /\ HasOp(log, "window_commit_buffer")
   /\ Valid(window.cairo_surface))
  => /\ heap[window.cairo_surface].width = text_width + 2 * Border
     /\ heap[window.cairo_surface].height = text_height + 2 * Border
     /\ heap[window.cairo_surface].width = window.rectangle.width
     /\ heap[window.cairo_surface].height = window.rectangle.height

PreparedReads ==
  SelectSeq(log, LAMBDA e : e.op = "wl_display_prepare_read" /\ e.args = <<0>>)

(* C25: a main_loop_wait call in which wl_display_prepare_read returned 0  *)
(* has issued exactly one wl_display_read_events or                        *)
(* wl_display_cancel_read when it returns, whatever it returns.            *)
C25_PreparedReadCompleted ==
  (/\ LastOp = "main_loop_wait"
   /\ status # "crashed"
   /\ PreparedReads # <<>>)
  => CountOp(log, "wl_display_read_events")
       + CountOp(log, "wl_display_cancel_read") = 1

ConfigureCalls == {i \in 1..Len(log) : log[i].op = "xdg_toplevel_configure"}

(* C22: in a main_loop_wait iteration every configure event queued at a    *)
(* wl_display_dispatch_pending call is delivered by that call, and once    *)
(* the iteration has read the window size for the comparison no configure  *)
(* callback runs any more, so none runs between the comparison and the     *)
(* buffer commit.                                                          *)
C22_ConfigureBeforeSizeRead ==
  (LastOp = "main_loop_wait" /\ status # "crashed")
  => /\ \A i \in 1..Len(log) :
          log[i].op = "wl_display_dispatch_pending"
          => \A k \in 1..log[i].args[1] :
               i + k <= Len(log) /\ log[i + k].op = "xdg_toplevel_configure"
     /\ HasOp(log, "window_get_width_height")
        => \A i \in ConfigureCalls :
             i < FirstIndex(log, "window_get_width_height")

C22_Witness ==
  /\ LastOp = "main_loop_wait"
  /\ status = "running"
  /\ Cardinality(ConfigureCalls) = 2
  /\ HasOp(log, "window_resize")
  /\ HasOp(log, "window_commit_buffer")

(* C23: a main_loop_wait iteration that finds need_to_update = 0 at the    *)
(* test after update_text makes no resize, no clear, no draw callback and  *)
(* no commit and leaves the window rectangle, the surface handle and every *)
(* buffer as they were before the iteration; an iteration that finds it    *)
(* non-zero leaves it 0, so the next one redraws only on a new request.    *)
C23_NoUpdateNoEffect ==
  [][(/\ status = "running"
      /\ status' = "running"
      /\ iter' = iter + 1
      /\ HasOp(log', "update_text"))
     => /\ ~HasOp(log', "update_text_area")
           => /\ ~HasOp(log', "window_resize")
              /\ ~HasOp(log', "clear_text")
              /\ ~HasOp(log', "draw_stuff")
              /\ ~HasOp(log', "window_commit_buffer")
              /\ heap' = heap
              /\ window'.cairo_surface = window.cairo_surface
              /\ window'.rectangle = window.rectangle
        /\ HasOp(log', "update_text_area") => need_to_update' = 0]_vars

---------------------------------------------------------------------------
(* Properties of the drawing primitives (checked under SpecDraw).          *)

(* The shared rule: x + width/2 + border, y + height + border.             *)
DevicePoint(x, y) ==
  <<x + (window.rectangle.width \div 2) + Border,
    y + window.rectangle.height + Border>>
CallArgs(op) == log[FirstIndex(log, op)].args

(* C11: each primitive hands cairo the image of its logical point under    *)
(* the shared rule and nothing else: draw_string_at and draw_line move to  *)
(* (and draw to) the images of their points, draw_rect and fill_rect draw  *)
(* the w by h rectangle whose origin is the image of (x, y), and draw_arc  *)
(* inscribes its arc in the w by h box at the image of (x, y).             *)
C11_SharedCoordinateRule ==
  LET a == log[1].args
  IN /\ (LastOp = "draw_string_at" /\ HasOp(log, "cairo_move_to"))
        => CallArgs("cairo_move_to") = DevicePoint(a[1], a[2])
     /\ (LastOp = "draw_line" /\ HasOp(log, "cairo_line_to"))
        => /\ CallArgs("cairo_move_to") = DevicePoint(a[1], a[2])
           /\ CallArgs("cairo_line_to") = DevicePoint(a[3], a[4])
     /\ (LastOp \in {"draw_rect", "fill_rect"} /\ HasOp(log, "cairo_rectangle"))
        => CallArgs("cairo_rectangle")
             = DevicePoint(a[1], a[2]) \o <<a[3], a[4]>>
     /\ (LastOp = "draw_arc" /\ HasOp(log, "cairo_translate"))
        => CallArgs("cairo_translate")
             = <<2 * DevicePoint(a[1], a[2])[1] + a[3],
                 2 * DevicePoint(a[1], a[2])[2] + a[4]>>

---------------------------------------------------------------------------
(* Properties of the font table (checked under SpecFont).                  *)

FontQueries == {"font_height", "font_ascent", "font_descent"}
LoadedFonts == {i \in 1..Len(pango_fonts) : pango_fonts[i].desc # NULL}
AssertFailed == \E i \in 1..Len(log) : log[i] = Ev("assert", <<FALSE>>)
Fallback(op) == IF op = "font_height" THEN 2 ELSE 1
Stored(op, font) ==
  IF op = "font_height" THEN font.ascent + font.descent
  ELSE IF op = "font_ascent" THEN font.ascent
  ELSE font.descent

(* C14: while no font is loaded (before load_fonts, after free_fonts) a    *)
(* metric query returns its fallback constant (2 for the height, 1 for the *)
(* ascent and the descent) for every index and fails no assertion.         *)
C14_FallbackWhenNoFonts ==
  (LastOp \in FontQueries /\ LoadedFonts = {})
  => /\ ~AssertFailed
     /\ status = "running"
     /\ ret = Fallback(LastOp)

(* C15: while fonts are loaded a metric query with an index at or beyond   *)
(* their number fails its assertion, and one with an index below it fails  *)
(* none and returns the stored metric of that slot, the height being       *)
(* ascent + descent.                                                       *)
C15_IndexCheckedWhenLoaded ==
  (LastOp \in FontQueries /\ LoadedFonts # {})
  => LET f == log[1].args[1]
     IN IF f >= Cardinality(LoadedFonts) THEN AssertFailed
        ELSE /\ ~AssertFailed
             /\ status = "running"
             /\ ret = Stored(LastOp, pango_fonts[f + 1])

C15_Witness ==
  /\ LastOp = "font_descent"
  /\ Cardinality(LoadedFonts) = NumFonts
  /\ log[1].args = <<NumFonts>>
  /\ AssertFailed

(* C16: free_fonts never fails, leaves the table empty with every          *)
(* description the table held freed exactly once, and a free_fonts that    *)
(* directly follows a free_fonts changes neither the table nor any         *)
(* description.                                                            *)
C16_FreeFontsIdempotent ==
  [][(log' # <<>> /\ log'[1].op = "free_fonts")
     => /\ status' = "running"
        /\ pango_fonts' = <<>>
        /\ \A d \in 1..Len(font_descs') : font_descs'[d] <= 1
        /\ \A i \in 1..Len(pango_fonts) :
             pango_fonts[i].desc # NULL
             => font_descs'[pango_fonts[i].desc] = 1
        /\ LastOp = "free_fonts"
           => pango_fonts' = pango_fonts /\ font_descs' = font_descs]_vars

C16_Witness ==
  /\ LastOp = "free_fonts"
  /\ ~HasOp(log, "pango_font_description_free")
  /\ pango_fonts = <<>>
  /\ Len(font_descs) = NumFonts
  /\ \A d \in 1..Len(font_descs) : font_descs[d] = 1

(* C28: whenever free_fonts has just returned, every font description      *)
(* load_fonts ever created has been freed exactly once, also when          *)
(* load_fonts ran twice with no free_fonts between.                        *)
C28_EveryDescriptionFreedOnce ==
  LastOp = "free_fonts" => \A d \in 1..Len(font_descs) : font_descs[d] = 1

---------------------------------------------------------------------------
(* Properties of the colour parser (checked under SpecParse).              *)

HexDigits ==
  {"0", "1", "2", "3", "4", "5", "6", "7", "8", "9", "a", "b", "c", "d", "e",
   "f", "A", "B", "C", "D", "E", "F"}
IsHexColour(s) == Len(s) \in {6, 8} /\ \A i \in 1..Len(s) : s[i] \in HexDigits
ParsedName == log[1].args[1]
FailureColour == [lo |-> <<255, 0, 255, 0>>, hi |-> 0]  \* 0xFF00FF

(* C17: when a string s of 6 or 8 hex digits that is no database name is   *)
(* parsed and then s with a leading '#' is parsed, the second call returns *)
(* the value the first returned.                                           *)
C17_MarkerMakesNoDifference ==
  [][(/\ LastOp = "get_x11_color"
      /\ log' # <<>>
      /\ log'[1].op = "get_x11_color"
      /\ IsHexColour(ParsedName)
      /\ ParsedName \notin DOMAIN ColourDB
      /\ log'[1].args[1] = <<"#">> \o ParsedName)
     => ret' = ret]_vars

(* C18: for a name that is no database name and is not, after an optional  *)
(* leading '#', 6 or 8 hex digits, the parser logs the error, returns      *)
(* 0xFF00FF and the process goes on.                                       *)
C18_FailureYieldsMagenta ==
  (/\ LastOp = "get_x11_color"
   /\ ParsedName \notin DOMAIN ColourDB
   /\ ~IsHexColour(ParsedName)
   /\ ~(ParsedName # <<>> /\ ParsedName[1] = "#"
        /\ IsHexColour(Tail(ParsedName))))
  => /\ ret = FailureColour
     /\ HasOp(log, "NORM_ERR")
     /\ status = "running"

C18_Witness ==
  /\ LastOp = "get_x11_color"
  /\ ParsedName = <<"#", "g", "0", "0", "0", "f", "f">>
  /\ HasOp(log, "NORM_ERR")
  /\ ret = FailureColour

(* C26: a name that parses as 6 or 8 hex digits, with or without a leading *)
(* '#', never returns the value 0xFF00FF that a parse failure returns.     *)
C26_SuccessDiffersFromFailure ==
  (/\ LastOp = "get_x11_color"
   /\ \/ IsHexColour(ParsedName)
      \/ ParsedName # <<>> /\ ParsedName[1] = "#"
         /\ IsHexColour(Tail(ParsedName))
   /\ ~HasOp(log, "NORM_ERR"))
  => ret # FailureColour

---------------------------------------------------------------------------
(* Properties of the pool allocator (checked under SpecPool).              *)

(* used + size > limit over the naturals, for size_t values written as     *)
(* two's-complement representatives (v < 0 stands for 2^64 + v).           *)
Wraps(v) == IF v < 0 THEN 1 ELSE 0
SumExceeds(used, size, limit) ==
  \/ Wraps(used) + Wraps(size) > Wraps(limit)
  \/ Wraps(used) + Wraps(size) = Wraps(limit) /\ used + size > limit

(* C7: a request with used + size > pool.size fails and leaves the pool's  *)
(* used counter, size and data pointer as they were.                       *)
C7_ExhaustedRequestFails ==
  SumExceeds(pool_prev.used, pool_req, pool_prev.size)
  => ~pool_ret.ok /\ pool = pool_prev

(* C24: after every shm_pool_allocate call 0 <= used <= size, used has not *)
(* decreased, and a successful call returns the previous used counter (the *)
(* sum of the sizes handed out before it); a failed call leaves used alone. *)
C24_BumpAllocatorInvariant ==
  /\ pool.used >= 0 /\ pool.used <= pool.size
  /\ ~UGt(pool_prev.used, pool.used)
  /\ pool_ret.ok => pool_ret.offset = pool_prev.used
  /\ ~pool_ret.ok => pool.used = pool_prev.used

---------------------------------------------------------------------------
(* Properties of the colour engine (checked under SpecColour).             *)

AfterGradient == grad_in # <<>>
AfterAdjust == colour_depth # 0 /\ grad_in = <<>>
RedShift == ((2 * colour_depth) \div 3) + (colour_depth % 3)
GreenShift == colour_depth \div 3
Channels(c) ==
  <<Shr(BitAnd(c, redmask), RedShift), Shr(BitAnd(c, greenmask), GreenShift),
    BitAnd(c, bluemask)>>

(* C8: for width >= 2 do_gradient returns width values, the first with the *)
(* red, green and blue channels of first_colour and the last with those of *)
(* last_colour, at depth 16 and 24, initialised beforehand or not.         *)
C8_GradientEndpoints ==
  (AfterGradient /\ grad_in[1] >= 2)
  => /\ Len(grad_out) = grad_in[1]
     /\ Channels(grad_out[1]) = Channels(grad_in[2])
     /\ Channels(grad_out[Len(grad_out)]) = Channels(grad_in[3])

(* The gradient of width 2 for the arguments and the entry state of the    *)
(* last do_gradient call: the shifts are those of the depth on entry, the  *)
(* masks those in force once set_up_gradient has run.                      *)
TwoStepGradient ==
  LET rs == ((2 * depth_on_entry) \div 3) + (depth_on_entry % 3)
      gs == depth_on_entry \div 3
      ch(c) == <<Shr(BitAnd(c, redmask), rs), Shr(BitAnd(c, greenmask), gs),
                 BitAnd(c, bluemask)>>
      a == ch(grad_in[2])
      b == ch(grad_in[3])
      el(i) == BitOr(BitOr(Shl(GradientChannel(a[1], b[1], i, 2, ColourState),
                               rs),
                           Shl(GradientChannel(a[2], b[2], i, 2, ColourState),
                               gs)),
                     GradientChannel(a[3], b[3], i, 2, ColourState))
  IN <<el(0), el(1)>>

(* C19: for a requested width below 2 (0 and negative values included)     *)
(* do_gradient returns exactly the two values it returns for width 2.      *)
C19_SmallWidthIsTwo ==
  (AfterGradient /\ grad_in[1] < 2) => grad_out = TwoStepGradient

C19_Witness ==
  /\ AfterGradient
  /\ grad_in[1] = -1
  /\ depth_on_entry = 24
  /\ Len(grad_out) = 2
  /\ grad_out = <<grad_in[2], grad_in[3]>>
  /\ grad_out[1] # grad_out[2]

(* C21: a do_gradient call entered with the colour depth still 0 returns   *)
(* the sequence the identical call returns once the depth is initialised.  *)
C21_GradientIndependentOfInit ==
  (AfterGradient /\ depth_on_entry = 0)
  => grad_out = do_gradient(grad_in[1], grad_in[2], grad_in[3], ColourState,
                            colour_depth).out

ChannelBetween(v, a, b) == (a <= v /\ v <= b) \/ (b <= v /\ v <= a)

(* C27: for width >= 2 each channel of the do_gradient output is monotone  *)
(* along the index, rising when the start channel is below the end channel *)
(* and falling otherwise, and stays between the two endpoint channels.     *)
C27_GradientMonotone ==
  (AfterGradient /\ grad_in[1] >= 2)
  => \A k \in 1..3 :
       LET a == Channels(grad_in[2])[k]
           b == Channels(grad_in[3])[k]
       IN /\ \A i \in 1..Len(grad_out) :
               ChannelBetween(Channels(grad_out[i])[k], a, b)
          /\ \A i \in 1..(Len(grad_out) - 1) :
               IF a < b
               THEN Channels(grad_out[i])[k] <= Channels(grad_out[i + 1])[k]
               ELSE Channels(grad_out[i])[k] >= Channels(grad_out[i + 1])[k]

(* C9, as stated: at a fixed depth, depth 16 included, adjust_colours      *)
(* applied to its own result returns that result.                          *)
C9_AdjustIdempotent ==
  AfterAdjust
  => adjust_colours(adj_out, ColourState, colour_depth).out = adj_out

(* C9, amended: at a fixed depth other than 16 adjust_colours applied to   *)
(* its own result returns that result.                                     *)
C9_AdjustIdempotentNot16 ==
  (AfterAdjust /\ colour_depth # 16)
  => adjust_colours(adj_out, ColourState, colour_depth).out = adj_out

C9_Witness ==
  /\ AfterAdjust
  /\ colour_depth = 24
  /\ adj_in = 16777215
  /\ adj_out = adj_in

====
